---- MODULE Spec2Model ----
(***************************************************************************)
(* GZip codec of cpp/src/arrow/util/compression_zlib_isal.cc.              *)
(*                                                                         *)
(* The one-shot GZipCodec compresses with zlib's deflate and decompresses  *)
(* with ISA-L's stateful isal_inflate; GZipDecompressor and GZipCompressor *)
(* are the streaming sessions; MakeGZipCodec picks the software codec or   *)
(* the QAT one from ARROW_GZIP_BACKEND.  The two engines are external      *)
(* libraries: they are modelled by their documented interface over a small *)
(* framed bitstream (header, length-prefixed blocks, checksum trailer), so *)
(* that a stream can be truncated, malformed, or framed for another format.*)
(***************************************************************************)
EXTENDS Integers, Sequences, FiniteSets, TLC

\* ----------------------------------------------------------------------
\* Bounds of the model

\* longest uncompressed input handed to Compress
MaxLen == 2

\* streaming compression stops making calls once this many bytes are out
MaxEmitted == 10

\* length of the one long input: its stream does not fit the buffer that
\* MaxCompressedLen sizes for an empty input
LongLen == 16

\* ----------------------------------------------------------------------
\* Constants of the source

WINDOW_BITS == 15
GZIP_CODEC == 16

\* isal_inflate return codes and block states (igzip_lib.h)
ISAL_DECOMP_OK == 0
ISAL_INVALID_BLOCK == -1
ISAL_INVALID_WRAPPER == -4
ISAL_UNSUPPORTED_METHOD == -5
ISAL_INCORRECT_CHECKSUM == -6
ISAL_BLOCK_NEW_HDR == 0
ISAL_BLOCK_TYPE0 == 2
ISAL_BLOCK_INPUT_DONE == 4
ISAL_BLOCK_FINISH == 5

\* compression levels (compression_internal.h / compression.h)
kUseDefaultCompressionLevel == -2147483647 - 1
kGZipDefaultCompressionLevel == 9

Formats == {"DEFLATE", "ZLIB", "GZIP"}

\* ----------------------------------------------------------------------
\* Sequence helpers

Min(a, b) == IF a <= b THEN a ELSE b

Take(s, n) == SubSeq(s, 1, Min(n, Len(s)))

Drop(s, n) == SubSeq(s, Min(n, Len(s)) + 1, Len(s))

RECURSIVE Sum(_)
Sum(s) == IF s = <<>> THEN 0 ELSE Head(s) + Sum(Tail(s))

\* ----------------------------------------------------------------------
\* The framed bitstream both engines speak.
\*   wrap 0 (raw deflate): no header, no trailer
\*   wrap 1 (zlib):        header <<120>>,   trailer <<adler>>
\*   wrap 2 (gzip):        header <<31, 8>>, trailer <<crc, isize>>
\* A block is <<bfinal, len>> \o data; bfinal is 1 on the last block.

Checksum(data) == 7 + Sum(data) + 3 * Len(data)

WrapHeader(wrap) ==
  CASE wrap = 2 -> <<31, 8>>
    [] wrap = 1 -> <<120>>
    [] OTHER -> <<>>

WrapTrailer(wrap, cksum, isize) ==
  CASE wrap = 2 -> <<cksum, isize>>
    [] wrap = 1 -> <<cksum>>
    [] OTHER -> <<>>

Block(bfinal, data) == <<bfinal, Len(data)>> \o data

\* ----------------------------------------------------------------------
\* zlib deflate engine (z_stream and its internal state)

Z_OK == "Z_OK"
Z_STREAM_END == "Z_STREAM_END"
Z_STREAM_ERROR == "Z_STREAM_ERROR"
Z_BUF_ERROR == "Z_BUF_ERROR"
Z_NO_FLUSH == "Z_NO_FLUSH"
Z_SYNC_FLUSH == "Z_SYNC_FLUSH"
Z_FINISH == "Z_FINISH"

\* memset(&stream_, 0, sizeof(stream_)), and a stream after deflateEnd
ZeroStream ==
  [status |-> "NONE", wrap |-> 0, level |-> 0, memLevel |-> 0, pending |-> <<>>,
   window |-> <<>>, last_flush |-> "NONE", cksum |-> 0, isize |-> 0, msg |-> "NULL"]

Rank(flush) ==
  CASE flush = Z_NO_FLUSH -> 0
    [] flush = Z_SYNC_FLUSH -> 4
    [] flush = Z_FINISH -> 8
    [] OTHER -> -4

\* deflateReset: back to the state right after deflateInit2
DeflateReset(s) ==
  [s EXCEPT !.status = "INIT_STATE", !.wrap = IF @ < 0 THEN -@ ELSE @,
            !.pending = <<>>, !.window = <<>>, !.last_flush = "NONE",
            !.cksum = Checksum(<<>>), !.isize = 0, !.msg = "NULL"]

\* deflateInit2(strm, level, method, windowBits, memLevel, strategy)
DeflateInit2(level, windowBits, memLevel) ==
  LET wrap == IF windowBits < 0 THEN 0 ELSE IF windowBits > 15 THEN 2 ELSE 1
      bits == IF windowBits < 0 THEN -windowBits
              ELSE IF windowBits > 15 THEN windowBits - 16 ELSE windowBits
      lvl == IF level = -1 THEN 6 ELSE level
  IN IF memLevel < 1 \/ memLevel > 9 \/ bits < 8 \/ bits > 15 \/ lvl < 0 \/ lvl > 9
     THEN [ret |-> Z_STREAM_ERROR, s |-> ZeroStream]
     ELSE [ret |-> Z_OK,
           s |-> DeflateReset([ZeroStream EXCEPT !.wrap = wrap, !.level = lvl,
                                                 !.memLevel = memLevel])]

\* deflateEnd: the session is released
DeflateEnd(s) == ZeroStream

\* deflateBound for the framing in use
DeflateBound(s, sourceLen) ==
  sourceLen + 2 + Len(WrapHeader(s.wrap)) + Len(WrapTrailer(s.wrap, 0, 0))

\* flush_pending: copy as much pending output as the caller's buffer takes
FlushPending(s, out, avail_out) ==
  LET n == Min(Len(s.pending), avail_out - Len(out))
  IN [s |-> [s EXCEPT !.pending = Drop(@, n)], out |-> out \o Take(s.pending, n)]

DeflateErr(s, ret, msg) ==
  [ret |-> ret, s |-> [s EXCEPT !.msg = msg], consumed |-> 0, out |-> <<>>]

\* the tail of deflate() once the last block is out: the trailer, once
DeflateTrailer(s, consumed, out, avail_out) ==
  IF s.wrap <= 0
  THEN [ret |-> Z_STREAM_END, s |-> s, consumed |-> consumed, out |-> out]
  ELSE LET t == [s EXCEPT !.pending = @ \o WrapTrailer(s.wrap, s.cksum, s.isize)]
           f == FlushPending(t, out, avail_out)
           u == [f.s EXCEPT !.wrap = -@]
       IN [ret |-> IF u.pending # <<>> THEN Z_OK ELSE Z_STREAM_END,
           s |-> u, consumed |-> consumed, out |-> f.out]

\* the block function and what follows it in deflate()
DeflateBlocks(s, input, avail_out, flush, out) ==
  LET a == [s EXCEPT !.window = @ \o input,
                     !.cksum = @ + Sum(input) + 3 * Len(input),
                     !.isize = @ + Len(input)]
      n == Len(input)
      full(o) == Len(o) = avail_out
      noFlush(t) == [t EXCEPT !.last_flush = IF full(out) THEN "NONE" ELSE @]
  IN CASE flush = Z_NO_FLUSH ->
            \* need_more: the input stays in the window
            [ret |-> Z_OK, s |-> noFlush(a), consumed |-> n, out |-> out]
       [] flush = Z_SYNC_FLUSH ->
            LET b == IF a.window # <<>>
                     THEN [a EXCEPT !.pending = @ \o Block(0, a.window), !.window = <<>>]
                     ELSE a
                f == FlushPending(b, out, avail_out)
            IN IF a.window # <<>> /\ full(f.out)
               THEN [ret |-> Z_OK, s |-> [f.s EXCEPT !.last_flush = "NONE"],
                     consumed |-> n, out |-> f.out]
               ELSE LET c == [f.s EXCEPT !.pending = @ \o Block(0, <<>>)]
                        g == FlushPending(c, f.out, avail_out)
                    IN [ret |-> Z_OK,
                        s |-> [g.s EXCEPT !.last_flush =
                                 IF full(g.out) THEN "NONE" ELSE @],
                        consumed |-> n, out |-> g.out]
       [] OTHER ->
            LET b == [a EXCEPT !.pending = @ \o Block(1, a.window), !.window = <<>>,
                               !.status = "FINISH_STATE"]
                f == FlushPending(b, out, avail_out)
            IN IF full(f.out)
               THEN \* finish_started
                    [ret |-> Z_OK, s |-> [f.s EXCEPT !.last_flush = "NONE"],
                     consumed |-> n, out |-> f.out]
               ELSE DeflateTrailer(f.s, n, f.out, avail_out)

\* deflate(strm, flush) with strm->next_in/avail_in = input and
\* strm->avail_out = avail_out; out is what was written to next_out
Deflate(s, input, avail_out, flush) ==
  IF s.status = "NONE" \/ (s.status = "FINISH_STATE" /\ flush # Z_FINISH)
  THEN DeflateErr(s, Z_STREAM_ERROR, "stream error")
  ELSE IF avail_out = 0
  THEN DeflateErr(s, Z_BUF_ERROR, "buffer error")
  ELSE
    LET old_flush == s.last_flush
        s1 == [s EXCEPT !.last_flush = flush]
        hadPending == s1.pending # <<>>
        f == FlushPending(s1, <<>>, avail_out)
    IN IF hadPending /\ Len(f.out) = avail_out
       THEN [ret |-> Z_OK, s |-> [f.s EXCEPT !.last_flush = "NONE"],
             consumed |-> 0, out |-> f.out]
       ELSE IF ~hadPending /\ input = <<>> /\ Rank(flush) <= Rank(old_flush)
               /\ flush # Z_FINISH
       THEN DeflateErr(s1, Z_BUF_ERROR, "buffer error")
       ELSE IF f.s.status = "FINISH_STATE" /\ input # <<>>
       THEN [DeflateErr(f.s, Z_BUF_ERROR, "buffer error") EXCEPT !.out = f.out]
       ELSE
         LET s2 == IF f.s.status = "INIT_STATE"
                   THEN [f.s EXCEPT !.pending = @ \o WrapHeader(f.s.wrap),
                                    !.status = "BUSY_STATE"]
                   ELSE f.s
         IN IF input # <<>> \/ s2.window # <<>>
               \/ (flush # Z_NO_FLUSH /\ s2.status # "FINISH_STATE")
            THEN DeflateBlocks(s2, input, avail_out, flush, f.out)
            ELSE IF flush # Z_FINISH
            THEN [ret |-> Z_OK, s |-> s2, consumed |-> 0, out |-> f.out]
            ELSE DeflateTrailer(s2, 0, f.out, avail_out)

\* ----------------------------------------------------------------------
\* ISA-L stateful inflate engine (struct inflate_state)

ISAL_DEFLATE == "ISAL_DEFLATE"
ISAL_GZIP == "ISAL_GZIP"
ISAL_ZLIB == "ISAL_ZLIB"

\* isal_inflate_init
InflateInit ==
  [acc |-> <<>>, total_out |-> 0, block_state |-> ISAL_BLOCK_NEW_HDR,
   crc_flag |-> ISAL_DEFLATE]

\* isal_inflate_reset: everything but crc_flag goes back to its initial value
InflateReset(st) == [InflateInit EXCEPT !.crc_flag = st.crc_flag]

FlagWrap(crc_flag) ==
  CASE crc_flag = ISAL_GZIP -> 2
    [] crc_flag = ISAL_ZLIB -> 1
    [] OTHER -> 0

\* the wrapper header: nothing is decided before it is there in full
ParseHeader(crc_flag, s) ==
  LET hdr == WrapHeader(FlagWrap(crc_flag))
  IN IF Len(s) < Len(hdr) THEN [code |-> ISAL_DECOMP_OK, done |-> FALSE, pos |-> Len(s)]
     ELSE IF hdr # <<>> /\ s[1] # hdr[1]
     THEN [code |-> ISAL_INVALID_WRAPPER, done |-> FALSE, pos |-> 0]
     ELSE IF Len(hdr) > 1 /\ s[2] # hdr[2]
     THEN [code |-> ISAL_UNSUPPORTED_METHOD, done |-> FALSE, pos |-> 0]
     ELSE [code |-> ISAL_DECOMP_OK, done |-> TRUE, pos |-> Len(hdr)]

\* the blocks from position pos on; data is what the earlier blocks held
RECURSIVE ParseBlocks(_, _, _)
ParseBlocks(s, pos, data) ==
  IF Len(s) < pos + 2
  THEN [code |-> ISAL_DECOMP_OK, final |-> FALSE, pos |-> Len(s), data |-> data]
  ELSE LET bfinal == s[pos + 1]
           len == s[pos + 2]
           have == Len(s) - (pos + 2)
       IN IF bfinal \notin {0, 1}
          THEN [code |-> ISAL_INVALID_BLOCK, final |-> FALSE, pos |-> pos, data |-> data]
          ELSE IF have < len
          THEN [code |-> ISAL_DECOMP_OK, final |-> FALSE, pos |-> Len(s),
                data |-> data \o SubSeq(s, pos + 3, Len(s))]
          ELSE IF bfinal = 1
          THEN [code |-> ISAL_DECOMP_OK, final |-> TRUE, pos |-> pos + 2 + len,
                data |-> data \o SubSeq(s, pos + 3, pos + 2 + len)]
          ELSE ParseBlocks(s, pos + 2 + len, data \o SubSeq(s, pos + 3, pos + 2 + len))

InflateRet(ret, st, consumed, out) ==
  [ret |-> ret, s |-> st, consumed |-> consumed, out |-> out]

\* isal_inflate(state) with state->next_in/avail_in = input and
\* state->avail_out = avail_out; out is what was written to next_out
Inflate(st, input, avail_out) ==
  IF st.block_state = ISAL_BLOCK_FINISH
  THEN InflateRet(ISAL_DECOMP_OK, st, 0, <<>>)
  ELSE
    LET all == st.acc \o input
        h == ParseHeader(st.crc_flag, all)
    IN IF h.code # ISAL_DECOMP_OK THEN InflateRet(h.code, st, 0, <<>>)
       ELSE IF ~h.done
       THEN InflateRet(ISAL_DECOMP_OK, [st EXCEPT !.acc = all], Len(input), <<>>)
       ELSE
         LET b == ParseBlocks(all, h.pos, <<>>)
             upto == Min(Len(b.data), st.total_out + avail_out)
             out == SubSeq(b.data, st.total_out + 1, upto)
             t == [st EXCEPT !.total_out = upto]
             tlen == Len(WrapTrailer(FlagWrap(st.crc_flag), 0, 0))
             trailer == SubSeq(all, b.pos + 1, b.pos + tlen)
         IN IF b.code # ISAL_DECOMP_OK
            THEN InflateRet(b.code, [t EXCEPT !.acc = Take(all, b.pos)],
                            b.pos - Len(st.acc), out)
            ELSE IF ~b.final
            THEN InflateRet(ISAL_DECOMP_OK,
                            [t EXCEPT !.acc = all, !.block_state = ISAL_BLOCK_TYPE0],
                            Len(input), out)
            ELSE IF upto < Len(b.data)
            THEN \* decoded output is still waiting for room
                 InflateRet(ISAL_DECOMP_OK,
                            [t EXCEPT !.acc = Take(all, b.pos),
                                      !.block_state = ISAL_BLOCK_INPUT_DONE],
                            b.pos - Len(st.acc), out)
            ELSE IF Len(all) < b.pos + tlen
            THEN InflateRet(ISAL_DECOMP_OK,
                            [t EXCEPT !.acc = all, !.block_state = ISAL_BLOCK_INPUT_DONE],
                            Len(input), out)
            ELSE IF trailer # WrapTrailer(FlagWrap(st.crc_flag),
                                          Checksum(b.data), Len(b.data))
            THEN InflateRet(ISAL_INCORRECT_CHECKSUM,
                            [t EXCEPT !.acc = Take(all, b.pos + tlen),
                                      !.block_state = ISAL_BLOCK_FINISH],
                            b.pos + tlen - Len(st.acc), out)
            ELSE InflateRet(ISAL_DECOMP_OK,
                            [t EXCEPT !.acc = Take(all, b.pos + tlen),
                                      !.block_state = ISAL_BLOCK_FINISH],
                            b.pos + tlen - Len(st.acc), out)

\* ----------------------------------------------------------------------
\* Status / Result values

Ok(value, out) == [ok |-> TRUE, value |-> value, out |-> out, msg |-> "", detail |-> <<>>]

IOError(msg, detail) ==
  [ok |-> FALSE, value |-> 0, out |-> <<>>, msg |-> msg, detail |-> detail]

ZlibErrorPrefix(prefix_msg, msg) ==
  IOError(prefix_msg, <<IF msg = "NULL" THEN "(unknown error)" ELSE msg>>)

\* ----------------------------------------------------------------------
\* GZipCodec

CompressionWindowBitsForFormat(format) ==
  CASE format = "DEFLATE" -> -WINDOW_BITS
    [] format = "GZIP" -> WINDOW_BITS + GZIP_CODEC
    [] OTHER -> WINDOW_BITS

\* GZipCodec::GZipCodec; log is the list of engine calls of the running call
GZipCodec(compression_level, format) ==
  [format_ |-> format,
   compressor_initialized_ |-> FALSE,
   decompressor_initialized_ |-> FALSE,
   compression_level_ |-> IF compression_level = kUseDefaultCompressionLevel
                          THEN kGZipDefaultCompressionLevel
                          ELSE compression_level,
   stream_ |-> ZeroStream,
   state_ |-> InflateInit,
   log |-> <<>>]

Logged(m, call) == [m EXCEPT !.log = Append(@, call)]

EndCompressor(m) ==
  LET m1 == IF m.compressor_initialized_
            THEN Logged([m EXCEPT !.stream_ = DeflateEnd(@)], "deflateEnd")
            ELSE m
  IN [m1 EXCEPT !.compressor_initialized_ = FALSE]

EndDecompressor(m) ==
  LET m1 == IF m.decompressor_initialized_
            THEN Logged([m EXCEPT !.state_ = InflateReset(@)],
                        "EndDecompressor:isal_inflate_reset")
            ELSE m
  IN [m1 EXCEPT !.decompressor_initialized_ = FALSE]

InitCompressor(m) ==
  LET m1 == EndDecompressor(m)
      window_bits == CompressionWindowBitsForFormat(m1.format_)
      r == DeflateInit2(-1, window_bits, m1.compression_level_)
      m2 == Logged([m1 EXCEPT !.stream_ = r.s], "deflateInit2")
  IN IF r.ret # Z_OK
     THEN [m |-> m2, status |-> ZlibErrorPrefix("zlib deflateInit failed: ", r.s.msg)]
     ELSE [m |-> [m2 EXCEPT !.compressor_initialized_ = TRUE], status |-> Ok(0, <<>>)]

\* InitDecompressor that forgets to tear the compression session down
InitDecompressor_NoEndCompressor(m) ==
  LET m2 == Logged([m EXCEPT !.state_ = [InflateInit EXCEPT !.crc_flag = ISAL_GZIP]],
                   "isal_inflate_init")
  IN [m |-> [m2 EXCEPT !.decompressor_initialized_ = TRUE], status |-> Ok(0, <<>>)]

InitDecompressor(m) ==
  LET m1 == EndCompressor(m)
      m2 == Logged([m1 EXCEPT !.state_ = [InflateInit EXCEPT !.crc_flag = ISAL_GZIP]],
                   "isal_inflate_init")
  IN [m |-> [m2 EXCEPT !.decompressor_initialized_ = TRUE], status |-> Ok(0, <<>>)]

\* what a call hands back to the action: the codec, the Result, what deflate
\* returned ("none" when it was not called), what isal_inflate returned (<<>>
\* when it was not called), and whether the process was terminated
Outcome(m, result, zret, iret) ==
  [m |-> m, result |-> result, zret |-> zret, iret |-> iret, aborted |-> FALSE]

\* Decompress without the early return for an empty output buffer
CodecDecompress_NoZeroCheck(m, input, output_buffer_length) ==
  LET i == IF ~m.decompressor_initialized_ THEN InitDecompressor(m)
           ELSE [m |-> m, status |-> Ok(0, <<>>)]
      m1 == Logged([i.m EXCEPT !.state_ = InflateReset(@)], "isal_inflate_reset")
      r == Inflate(m1.state_, input, output_buffer_length)
      m2 == Logged([m1 EXCEPT !.state_ = r.s], "isal_inflate")
  IN IF r.ret = ISAL_BLOCK_FINISH \/ r.ret = ISAL_DECOMP_OK
     THEN Outcome(m2, Ok(r.s.total_out, r.out), "none", <<r.ret>>)
     ELSE Outcome(m2,
                  IOError("Too small a buffer passed to GZipCodec.",
                          <<"InputLength=", Len(input),
                            "OutputLength=", output_buffer_length>>),
                  "none", <<r.ret>>)

CodecDecompress(m, input, output_buffer_length) ==
  LET i == IF ~m.decompressor_initialized_ THEN InitDecompressor(m)
           ELSE [m |-> m, status |-> Ok(0, <<>>)]
  IN IF ~i.status.ok THEN Outcome(i.m, i.status, "none", <<>>)
     ELSE IF output_buffer_length = 0 THEN Outcome(i.m, Ok(0, <<>>), "none", <<>>)
     ELSE
       LET m1 == Logged([i.m EXCEPT !.state_ = InflateReset(@)], "isal_inflate_reset")
           r == Inflate(m1.state_, input, output_buffer_length)
           m2 == Logged([m1 EXCEPT !.state_ = r.s], "isal_inflate")
       IN IF r.ret = ISAL_BLOCK_FINISH \/ r.ret = ISAL_DECOMP_OK
          THEN Outcome(m2, Ok(r.s.total_out, r.out), "none", <<r.ret>>)
          ELSE Outcome(m2,
                       IOError("Too small a buffer passed to GZipCodec.",
                               <<"InputLength=", Len(input),
                                 "OutputLength=", output_buffer_length>>),
                       "none", <<r.ret>>)

CodecMaxCompressedLen(m, input_length) ==
  LET i == IF ~m.compressor_initialized_ THEN InitCompressor(m)
           ELSE [m |-> m, status |-> Ok(0, <<>>)]
  IN IF ~i.status.ok
     THEN [Outcome(i.m, i.status, "none", <<>>) EXCEPT !.aborted = TRUE]
     ELSE Outcome(Logged(i.m, "deflateBound"),
                  Ok(DeflateBound(i.m.stream_, input_length) + 12, <<>>), "none", <<>>)

\* Compress that leaves the finished stream as it is instead of resetting it
CodecCompress_NoReset(m, input, output_buffer_len) ==
  LET i == IF ~m.compressor_initialized_ THEN InitCompressor(m)
           ELSE [m |-> m, status |-> Ok(0, <<>>)]
  IN IF ~i.status.ok THEN Outcome(i.m, i.status, "none", <<>>)
     ELSE
       LET r == Deflate(i.m.stream_, input, output_buffer_len, Z_FINISH)
           m1 == Logged([i.m EXCEPT !.stream_ = r.s], "deflate")
       IN IF r.ret # Z_STREAM_END
          THEN IF r.ret = Z_OK
               THEN Outcome(m1, IOError("zlib deflate failed, output buffer too small",
                                        <<>>), r.ret, <<>>)
               ELSE Outcome(m1, ZlibErrorPrefix("zlib deflate failed: ", r.s.msg),
                            r.ret, <<>>)
          ELSE Outcome(m1, Ok(Len(r.out), r.out), r.ret, <<>>)

\* Compress that reports every unfinished deflate as an engine error
CodecCompress_NoBufferCase(m, input, output_buffer_len) ==
  LET i == IF ~m.compressor_initialized_ THEN InitCompressor(m)
           ELSE [m |-> m, status |-> Ok(0, <<>>)]
  IN IF ~i.status.ok THEN Outcome(i.m, i.status, "none", <<>>)
     ELSE
       LET r == Deflate(i.m.stream_, input, output_buffer_len, Z_FINISH)
           m1 == Logged([i.m EXCEPT !.stream_ = r.s], "deflate")
       IN IF r.ret # Z_STREAM_END
          THEN Outcome(m1, ZlibErrorPrefix("zlib deflate failed: ", r.s.msg), r.ret, <<>>)
          ELSE Outcome(Logged([m1 EXCEPT !.stream_ = DeflateReset(@)], "deflateReset"),
                       Ok(Len(r.out), r.out), r.ret, <<>>)

CodecCompress(m, input, output_buffer_len) ==
  LET i == IF ~m.compressor_initialized_ THEN InitCompressor(m)
           ELSE [m |-> m, status |-> Ok(0, <<>>)]
  IN IF ~i.status.ok THEN Outcome(i.m, i.status, "none", <<>>)
     ELSE
       LET r == Deflate(i.m.stream_, input, output_buffer_len, Z_FINISH)
           m1 == Logged([i.m EXCEPT !.stream_ = r.s], "deflate")
       IN IF r.ret # Z_STREAM_END
          THEN IF r.ret = Z_OK
               THEN Outcome(m1, IOError("zlib deflate failed, output buffer too small",
                                        <<>>), r.ret, <<>>)
               ELSE Outcome(m1, ZlibErrorPrefix("zlib deflate failed: ", r.s.msg),
                            r.ret, <<>>)
          ELSE Outcome(Logged([m1 EXCEPT !.stream_ = DeflateReset(@)], "deflateReset"),
                       Ok(Len(r.out), r.out), r.ret, <<>>)

\* Init that activates the decompressor first and the compressor last
CodecInit_CompressorLast(m) ==
  LET d == InitDecompressor(m)
      c == InitCompressor(d.m)
  IN Outcome(c.m, c.status, "none", <<>>)

CodecInit(m) ==
  LET c == InitCompressor(m)
  IN IF ~c.status.ok THEN Outcome(c.m, c.status, "none", <<>>)
     ELSE LET d == InitDecompressor(c.m)
          IN Outcome(d.m, d.status, "none", <<>>)

\* GZipCodec::compression_level
CodecCompressionLevel(m) == m.compression_level_

\* GZipCodec::~GZipCodec
CodecDestroy(m) ==
  Outcome(EndDecompressor(EndCompressor(m)), Ok(0, <<>>), "none", <<>>)

\* ----------------------------------------------------------------------
\* GZipDecompressor (streaming)

\* std::numeric_limits<uInt>::max(), with uInt scaled down to 6 bits
input_limit == 63

\* GZipDecompressor::GZipDecompressor
GZipDecompressor(format) ==
  [format_ |-> format, initialized_ |-> FALSE, finished_ |-> FALSE,
   stream_ |-> InflateInit]

DecompressorInit(d) ==
  [d EXCEPT !.finished_ = FALSE,
            !.stream_ = [InflateInit EXCEPT !.crc_flag = ISAL_GZIP],
            !.initialized_ = TRUE]

\* Reset that resets the engine but leaves the finished flag as it is
DecompressorReset_KeepsFinished(d) == [d EXCEPT !.stream_ = InflateReset(@)]

DecompressorReset(d) ==
  [d EXCEPT !.finished_ = FALSE, !.stream_ = InflateReset(@)]

\* GZipDecompressor::Decompress; the caller's input holds input_len bytes
DecompressorDecompress(d, input, output_len) ==
  LET input_len == Len(input)
      avail_in == Min(input_len, input_limit)
      avail_out == Min(output_len, input_limit)
      r == Inflate(d.stream_, Take(input, avail_in), avail_out)
      d1 == [d EXCEPT !.stream_ = r.s,
                      !.finished_ = (r.s.block_state = ISAL_BLOCK_FINISH)]
  IN IF r.ret # ISAL_DECOMP_OK
     THEN \* ARROW_CHECK(ret == ISAL_DECOMP_OK) terminates the process
          [d |-> d1, iret |-> <<r.ret>>, aborted |-> TRUE, out |-> r.out,
           consumed |-> r.consumed,
           result |-> IOError("Check failed: ret == ISAL_DECOMP_OK", <<>>)]
     ELSE [d |-> d1, iret |-> <<r.ret>>, aborted |-> FALSE, out |-> r.out,
           consumed |-> r.consumed,
           result |-> [Ok(0, r.out) EXCEPT
                         !.detail = [bytes_read |-> input_len - (avail_in - r.consumed),
                                     bytes_written |-> output_len - (avail_out - Len(r.out)),
                                     need_more_output |-> FALSE]]]

\* GZipCodec::MakeDecompressor
MakeDecompressor(m) == DecompressorInit(GZipDecompressor(m.format_))

\* ----------------------------------------------------------------------
\* GZipCompressor (streaming)

\* GZipCompressor::GZipCompressor
GZipCompressor(compression_level) ==
  [initialized_ |-> FALSE, compression_level_ |-> compression_level,
   stream_ |-> ZeroStream]

\* what a GZipCompressor method hands back: the object, the Result, what
\* deflate returned ("none" when it was not called), the bytes written to
\* output, how many bytes of input the engine took (set by Compress), the
\* engine calls made, and whether the process was terminated
Streamed(c, result, zret, out, calls) ==
  [c |-> c, result |-> result, zret |-> zret, out |-> out, consumed |-> 0,
   calls |-> calls, aborted |-> FALSE]

\* a failed DCHECK or ARROW_CHECK terminates the process
CheckFailed(c, what, zret, calls) ==
  [Streamed(c, IOError(what, <<>>), zret, <<>>, calls) EXCEPT !.aborted = TRUE]

\* GZipCompressor::ZlibError
CompressorZlibError(c, prefix_msg) == ZlibErrorPrefix(prefix_msg, c.stream_.msg)

\* GZipCompressor::Init
CompressorInit(c, format) ==
  LET window_bits == CompressionWindowBitsForFormat(format)
      r == DeflateInit2(-1, window_bits, c.compression_level_)
      c1 == [c EXCEPT !.stream_ = r.s]
  IN IF r.ret # Z_OK
     THEN Streamed(c1, CompressorZlibError(c1, "zlib deflateInit failed: "),
                   "none", <<>>, <<"deflateInit2">>)
     ELSE Streamed([c1 EXCEPT !.initialized_ = TRUE], Ok(0, <<>>),
                   "none", <<>>, <<"deflateInit2">>)

\* Compress that fails when the engine made no progress
CompressorCompress_BufErrorFails(c, input, output_len, dcheck) ==
  LET input_len == Len(input)
      avail_in == Min(input_len, input_limit)
      avail_out == Min(output_len, input_limit)
      r == Deflate(c.stream_, Take(input, avail_in), avail_out, Z_NO_FLUSH)
      c1 == [c EXCEPT !.stream_ = r.s]
      took(o) == [o EXCEPT !.consumed = r.consumed]
  IN IF dcheck /\ ~c.initialized_
     THEN CheckFailed(c, "Called on non-initialized stream", "none", <<>>)
     ELSE IF r.ret = Z_OK
     THEN took(Streamed(c1,
                   [Ok(0, r.out) EXCEPT
                      !.detail = [bytes_read |-> input_len - (avail_in - r.consumed),
                                  bytes_written |-> output_len - (avail_out - Len(r.out))]],
                   r.ret, r.out, <<"deflate">>))
     ELSE took(Streamed(c1, CompressorZlibError(c1, "zlib compress failed: "),
                        r.ret, r.out, <<"deflate">>))

\* GZipCompressor::Compress; dcheck says whether DCHECKs are compiled in
CompressorCompress(c, input, output_len, dcheck) ==
  LET input_len == Len(input)
      avail_in == Min(input_len, input_limit)
      avail_out == Min(output_len, input_limit)
      r == Deflate(c.stream_, Take(input, avail_in), avail_out, Z_NO_FLUSH)
      c1 == [c EXCEPT !.stream_ = r.s]
      took(o) == [o EXCEPT !.consumed = r.consumed]
  IN IF dcheck /\ ~c.initialized_
     THEN CheckFailed(c, "Called on non-initialized stream", "none", <<>>)
     ELSE IF r.ret = Z_STREAM_ERROR
     THEN took(Streamed(c1, CompressorZlibError(c1, "zlib compress failed: "),
                        r.ret, r.out, <<"deflate">>))
     ELSE IF r.ret = Z_OK
     THEN took(Streamed(c1,
                   [Ok(0, r.out) EXCEPT
                      !.detail = [bytes_read |-> input_len - (avail_in - r.consumed),
                                  bytes_written |-> output_len - (avail_out - Len(r.out))]],
                   r.ret, r.out, <<"deflate">>))
     ELSE IF r.ret # Z_BUF_ERROR
     THEN CheckFailed(c1, "Check failed: ret == Z_BUF_ERROR", r.ret, <<"deflate">>)
     ELSE took(Streamed(c1,
                   [Ok(0, <<>>) EXCEPT !.detail = [bytes_read |-> 0, bytes_written |-> 0]],
                   r.ret, r.out, <<"deflate">>))

\* Flush that asks for a retry when the engine made no progress
CompressorFlush_RetryOnBufError(c, output_len, dcheck) ==
  LET avail_out == Min(output_len, input_limit)
      r == Deflate(c.stream_, <<>>, avail_out, Z_SYNC_FLUSH)
      c1 == [c EXCEPT !.stream_ = r.s]
      bytes_written == IF r.ret = Z_OK THEN output_len - (avail_out - Len(r.out)) ELSE 0
  IN IF dcheck /\ ~c.initialized_
     THEN CheckFailed(c, "Called on non-initialized stream", "none", <<>>)
     ELSE IF r.ret = Z_STREAM_ERROR
     THEN Streamed(c1, CompressorZlibError(c1, "zlib flush failed: "),
                   r.ret, r.out, <<"deflate">>)
     ELSE Streamed(c1,
                   [Ok(0, r.out) EXCEPT
                      !.detail = [bytes_written |-> bytes_written,
                                  should_retry |-> (r.ret = Z_BUF_ERROR)]],
                   r.ret, r.out, <<"deflate">>)

\* GZipCompressor::Flush
CompressorFlush(c, output_len, dcheck) ==
  LET avail_out == Min(output_len, input_limit)
      r == Deflate(c.stream_, <<>>, avail_out, Z_SYNC_FLUSH)
      c1 == [c EXCEPT !.stream_ = r.s]
      bytes_written == IF r.ret = Z_OK THEN output_len - (avail_out - Len(r.out)) ELSE 0
  IN IF dcheck /\ ~c.initialized_
     THEN CheckFailed(c, "Called on non-initialized stream", "none", <<>>)
     ELSE IF r.ret = Z_STREAM_ERROR
     THEN Streamed(c1, CompressorZlibError(c1, "zlib flush failed: "),
                   r.ret, r.out, <<"deflate">>)
     ELSE IF r.ret \notin {Z_OK, Z_BUF_ERROR}
     THEN CheckFailed(c1, "Check failed: ret == Z_BUF_ERROR", r.ret, <<"deflate">>)
     ELSE Streamed(c1,
                   [Ok(0, r.out) EXCEPT
                      !.detail = [bytes_written |-> bytes_written,
                                  should_retry |-> (avail_out - Len(r.out) = 0)]],
                   r.ret, r.out, <<"deflate">>)

\* End that releases the session at the end of the stream but leaves the
\* instance marked as initialized
CompressorEnd_StaysInitialized(c, output_len, dcheck) ==
  LET avail_out == Min(output_len, input_limit)
      r == Deflate(c.stream_, <<>>, avail_out, Z_FINISH)
      c1 == [c EXCEPT !.stream_ = r.s]
      bytes_written == output_len - (avail_out - Len(r.out))
  IN IF dcheck /\ ~c.initialized_
     THEN CheckFailed(c, "Called on non-initialized stream", "none", <<>>)
     ELSE IF r.ret = Z_STREAM_ERROR
     THEN Streamed(c1, CompressorZlibError(c1, "zlib flush failed: "),
                   r.ret, r.out, <<"deflate">>)
     ELSE Streamed(IF r.ret = Z_STREAM_END THEN [c1 EXCEPT !.stream_ = DeflateEnd(@)]
                   ELSE c1,
                   [Ok(0, r.out) EXCEPT
                      !.detail = [bytes_written |-> bytes_written,
                                  should_retry |-> (r.ret # Z_STREAM_END)]],
                   r.ret, r.out,
                   IF r.ret = Z_STREAM_END THEN <<"deflate", "deflateEnd">>
                   ELSE <<"deflate">>)

\* GZipCompressor::End
CompressorEnd(c, output_len, dcheck) ==
  LET avail_out == Min(output_len, input_limit)
      r == Deflate(c.stream_, <<>>, avail_out, Z_FINISH)
      c1 == [c EXCEPT !.stream_ = r.s]
      bytes_written == output_len - (avail_out - Len(r.out))
  IN IF dcheck /\ ~c.initialized_
     THEN CheckFailed(c, "Called on non-initialized stream", "none", <<>>)
     ELSE IF r.ret = Z_STREAM_ERROR
     THEN Streamed(c1, CompressorZlibError(c1, "zlib flush failed: "),
                   r.ret, r.out, <<"deflate">>)
     ELSE IF r.ret = Z_STREAM_END
     THEN \* deflateEnd returns Z_OK on a stream that has reached its end
          Streamed([c1 EXCEPT !.initialized_ = FALSE, !.stream_ = DeflateEnd(@)],
                   [Ok(0, r.out) EXCEPT
                      !.detail = [bytes_written |-> bytes_written,
                                  should_retry |-> FALSE]],
                   r.ret, r.out, <<"deflate", "deflateEnd">>)
     ELSE Streamed(c1,
                   [Ok(0, r.out) EXCEPT
                      !.detail = [bytes_written |-> bytes_written,
                                  should_retry |-> TRUE]],
                   r.ret, r.out, <<"deflate">>)

\* GZipCompressor::~GZipCompressor
CompressorDestroy(c) ==
  IF c.initialized_
  THEN Streamed([c EXCEPT !.stream_ = DeflateEnd(@)], Ok(0, <<>>), "none", <<>>,
                <<"deflateEnd">>)
  ELSE Streamed(c, Ok(0, <<>>), "none", <<>>, <<>>)

\* GZipCodec::MakeCompressor; the Result holds the compressor only on success
MakeCompressor(m) == CompressorInit(GZipCompressor(m.compression_level_), m.format_)

\* ----------------------------------------------------------------------
\* QatCodec (compiled in with ARROW_WITH_QAT) and MakeGZipCodec

\* what a call on the codec MakeGZipCodec returned hands back: the Status code,
\* its message, the value, and the kind of streaming session made ("none" if none)
Returned(code, msg, detail, value, session) ==
  [code |-> code, msg |-> msg, detail |-> detail, value |-> value, session |-> session]

NotImplemented(msg) == Returned("NotImplemented", msg, <<>>, 0, "none")

\* QatCodec has no members
QatCodec == [kind |-> "QatCodec"]

\* QATzip status codes (qatzip.h); QZ_BUF_ERROR stands for every other one
QzStatus == {"QZ_OK", "QZ_PARAMS", "QZ_FAIL", "QZ_BUF_ERROR"}

\* QatCodec::Compress; ret and compressed_size are what qzCompress returned
QatCompress(input, output_buffer_len, ret, compressed_size) ==
  CASE ret = "QZ_OK" -> Returned("OK", "", <<>>, compressed_size, "none")
    [] ret = "QZ_PARAMS" ->
         Returned("IOError", "QAT compression failure: params is invalid", <<>>, 0, "none")
    [] ret = "QZ_FAIL" ->
         Returned("IOError", "QAT compression failure: function did not succeed", <<>>,
                  0, "none")
    [] OTHER ->
         Returned("IOError", "QAT compression failure with error:", <<ret>>, 0, "none")

\* QatCodec::Decompress; ret and uncompressed_size are what qzDecompress returned
QatDecompress(input, output_buffer_len, ret, uncompressed_size) ==
  CASE ret = "QZ_OK" -> Returned("OK", "", <<>>, uncompressed_size, "none")
    [] ret = "QZ_PARAMS" ->
         Returned("IOError", "QAT decompression failure: params is invalid", <<>>, 0, "none")
    [] ret = "QZ_FAIL" ->
         Returned("IOError", "QAT decompression failure: Function did not succeed", <<>>,
                  0, "none")
    [] OTHER ->
         Returned("IOError", "QAT decompression failure with error:", <<ret>>, 0, "none")

\* QatCodec::MaxCompressedLen; bound is what qzMaxCompressedLength returned
QatMaxCompressedLen(input_len, bound) == Returned("OK", "", <<>>, bound, "none")

\* QatCodec::MakeCompressor that falls back to the software compressor
QatMakeCompressor_Fallback == Returned("OK", "", <<>>, 0, "GZipCompressor")

\* QatCodec::MakeCompressor
QatMakeCompressor == NotImplemented("Streaming compression unsupported with QAT")

\* QatCodec::MakeDecompressor
QatMakeDecompressor == NotImplemented("Streaming decompression unsupported with QAT")

\* std::toupper on the characters the configuration values are made of
ToUpper(c) ==
  CASE c = "q" -> "Q"
    [] c = "a" -> "A"
    [] c = "t" -> "T"
    [] c = "z" -> "Z"
    [] OTHER -> c

\* arrow::internal::GetEnvVar: an error when the variable is not set
GetEnvVar(e) == [ok |-> e.set, value |-> e.value]

\* the software codec as MakeGZipCodec returns it
Software(compression_level, format) ==
  [kind |-> "GZipCodec", codec |-> GZipCodec(compression_level, format)]

\* MakeGZipCodec that compares the value as it is, without std::toupper
MakeGZipCodec_CaseSensitive(compression_level, format, e, with_qat) ==
  LET maybe_env_var == GetEnvVar(e)
      s == maybe_env_var.value
  IN IF ~maybe_env_var.ok
     THEN [codec |-> Software(compression_level, format), warnings |-> <<>>]
     ELSE IF s = <<"Q", "A", "T">>
     THEN IF with_qat
          THEN [codec |-> QatCodec, warnings |-> <<>>]
          ELSE [codec |-> Software(compression_level, format),
                warnings |-> <<[text |-> "Support for codec QAT not built",
                                value |-> <<>>]>>]
     ELSE IF s # <<>>
     THEN [codec |-> Software(compression_level, format),
           warnings |-> <<[text |-> "Invalid backend for ARROW_GZIP_BACKEND: ",
                           value |-> s]>>]
     ELSE [codec |-> Software(compression_level, format), warnings |-> <<>>]

\* MakeGZipCodec that falls back to the software codec without a word when the
\* hardware backend is not compiled in
MakeGZipCodec_SilentFallback(compression_level, format, e, with_qat) ==
  LET maybe_env_var == GetEnvVar(e)
      s == [i \in 1..Len(maybe_env_var.value) |-> ToUpper(maybe_env_var.value[i])]
  IN IF ~maybe_env_var.ok
     THEN [codec |-> Software(compression_level, format), warnings |-> <<>>]
     ELSE IF s = <<"Q", "A", "T">>
     THEN IF with_qat
          THEN [codec |-> QatCodec, warnings |-> <<>>]
          ELSE [codec |-> Software(compression_level, format), warnings |-> <<>>]
     ELSE IF s # <<>>
     THEN [codec |-> Software(compression_level, format),
           warnings |-> <<[text |-> "Invalid backend for ARROW_GZIP_BACKEND: ",
                           value |-> s]>>]
     ELSE [codec |-> Software(compression_level, format), warnings |-> <<>>]

\* MakeGZipCodec; e is the process environment's ARROW_GZIP_BACKEND, with_qat
\* says whether the build defines ARROW_WITH_QAT; warnings is what it logged
MakeGZipCodec(compression_level, format, e, with_qat) ==
  LET maybe_env_var == GetEnvVar(e)
      s == [i \in 1..Len(maybe_env_var.value) |-> ToUpper(maybe_env_var.value[i])]
  IN IF ~maybe_env_var.ok
     THEN [codec |-> Software(compression_level, format), warnings |-> <<>>]
     ELSE IF s = <<"Q", "A", "T">>
     THEN IF with_qat
          THEN [codec |-> QatCodec, warnings |-> <<>>]
          ELSE [codec |-> Software(compression_level, format),
                warnings |-> <<[text |-> "Support for codec QAT not built",
                                value |-> <<>>]>>]
     ELSE IF s # <<>>
     THEN [codec |-> Software(compression_level, format),
           warnings |-> <<[text |-> "Invalid backend for ARROW_GZIP_BACKEND: ",
                           value |-> s]>>]
     ELSE [codec |-> Software(compression_level, format), warnings |-> <<>>]

\* ----------------------------------------------------------------------
\* What callers hand to the codec

\* the default sentinel and a level the engine rejects as memLevel
Levels == {kUseDefaultCompressionLevel, 0}

\* byte sequences of every length <= MaxLen: runs of ones, and alternating bytes
Inputs ==
  {[i \in 1..n |-> 1] : n \in 0..MaxLen} \cup {[i \in 1..n |-> i % 2] : n \in 0..MaxLen}

\* one input far longer than the others
LongInput == [i \in 1..LongLen |-> 1]

\* room for the compressed stream of every input but the long one
\* (gzip: header 2, block header 2, trailer 2)
MaxStream == MaxLen + 6

\* output buffer lengths of Compress: none, some too small or exactly fitting, enough
OutLens == {n \in 0..MaxStream : n % 2 = 0 /\ n <= 4} \cup {MaxStream}

\* the stream a one-shot compression of b yields under each framing
OneShotStream(format, b) ==
  Deflate(DeflateInit2(-1, CompressionWindowBitsForFormat(format), 8).s,
          b, MaxStream, Z_FINISH).out

\* the sample under each framing
WellFormed == {OneShotStream(f, [i \in 1..MaxLen |-> 1]) : f \in Formats}

Prefixes(s) == {SubSeq(s, 1, n) : n \in 0..(Len(s) - 1)}

\* the gzip stream of the longest input of ones
Sample == OneShotStream("GZIP", [i \in 1..MaxLen |-> 1])

\* the sample cut short
Truncated == Prefixes(Sample)

\* the sample with one symbol damaged: the method byte, the block type, the size
Damaged ==
  {[Sample EXCEPT ![2] = 9], [Sample EXCEPT ![3] = 3],
   [Sample EXCEPT ![Len(Sample)] = @ + 1]}

CompressedInputs == WellFormed \cup Truncated \cup Damaged

\* ----------------------------------------------------------------------
\* State

VARIABLES
  codec,     \* the GZipCodec object (its log field is empty between calls)
  last,      \* the last call on the codec: arguments, Result, engine calls made
  aborted,   \* the process was terminated by a failed ARROW_CHECK
  dec,       \* the GZipDecompressor object
  feed,      \* compressed bytes the caller has not yet seen consumed
  produced,  \* decompressed bytes the caller has received so far
  dlast,     \* the last call on the decompressor and its Result
  comp,      \* the GZipCompressor object
  todo,      \* uncompressed bytes the caller has not yet seen consumed
  emitted,   \* compressed bytes the caller has received so far
  clast,     \* the last call on the compressor and its Result
  life,      \* the compressor's history: what it was made for, sessions set up
             \* and released, whether it was destroyed
  build,     \* whether the build defines ARROW_WITH_QAT
  env,       \* ARROW_GZIP_BACKEND in the process environment
  made       \* the codec MakeGZipCodec returned last, what it logged, and the
             \* last call on that codec

vars ==
  <<codec, last, aborted, dec, feed, produced, dlast, comp, todo, emitted, clast, life,
    build, env, made>>

streamVars == <<dec, feed, produced, dlast>>

compVars == <<comp, todo, emitted, clast, life>>

backendVars == <<build, env, made>>

codecVars == <<codec, last, aborted>>

NoCall ==
  [op |-> "none", input |-> <<>>, outLen |-> 0, result |-> Ok(0, <<>>),
   zret |-> "none", iret |-> <<>>, calls |-> <<>>, afterInit |-> FALSE, src |-> <<>>,
   roundTrip |-> FALSE, clean |-> TRUE]

NoStreamCall ==
  [op |-> "none", input |-> <<>>, outLen |-> 0, result |-> Ok(0, <<>>), iret |-> <<>>,
   consumed |-> 0]

\* a drain is a run of Flush (or End) calls with non-empty buffers, each but
\* the first made because the one before asked for a retry: what the engine had
\* to deliver when the run began, what the calls delivered, how many calls, the
\* smallest buffer
NoDrain == [buffered |-> <<>>, got |-> <<>>, calls |-> 0, minLen |-> 0]

NoCompressorCall ==
  [op |-> "none", inLen |-> 0, outLen |-> 0, result |-> Ok(0, <<>>), zret |-> "none",
   out |-> <<>>, consumed |-> 0, calls |-> <<>>, before |-> "NONE", drain |-> NoDrain]

NoLife ==
  [src |-> <<>>, made |-> FALSE, inits |-> 0, releases |-> 0, ends |-> 0,
   destroyed |-> FALSE, phase |-> "none"]

\* ARROW_GZIP_BACKEND is not set
Unset == [set |-> FALSE, value |-> <<>>]

\* MakeGZipCodec has not been called; read is the value the last call of
\* MakeGZipCodec found in the environment, changed says that the call before
\* had found another one
NothingMade ==
  [op |-> "none", codec |-> [kind |-> "none"], warnings |-> <<>>, read |-> Unset,
   changed |-> FALSE, result |-> Returned("OK", "", <<>>, 0, "none")]

\* no streaming compressor has been made, and no codec by MakeGZipCodec
NoCompressor ==
  /\ comp = GZipCompressor(codec.compression_level_)
  /\ todo = <<>>
  /\ emitted = <<>>
  /\ clast = NoCompressorCall
  /\ life = NoLife
  /\ build = FALSE
  /\ env = Unset
  /\ made = NothingMade

Init ==
  /\ \E level \in Levels, format \in Formats : codec = GZipCodec(level, format)
  /\ last = NoCall
  /\ aborted = FALSE
  /\ dec = GZipDecompressor(codec.format_)
  /\ feed = <<>>
  /\ produced = <<>>
  /\ dlast = NoStreamCall
  /\ NoCompressor

\* the bookkeeping every call shares: run the handler on the codec, keep what
\* it returned and which engine calls it made.  clean records that every
\* Compress so far had room for any stream and every Decompress so far was
\* given a complete stream and room for all of its data
Called(op, o, input, outLen, src, roundTrip) ==
  /\ codec' = [o.m EXCEPT !.log = <<>>]
  /\ aborted' = o.aborted
  /\ UNCHANGED <<streamVars, compVars, backendVars>>
  /\ last' = [op |-> op, input |-> input, outLen |-> outLen, result |-> o.result,
              zret |-> o.zret, iret |-> o.iret, calls |-> o.m.log,
              afterInit |-> (last.op = "Init" /\ last.result.ok),
              src |-> src, roundTrip |-> roundTrip,
              clean |-> /\ last.clean
                        /\ op = "Compress" => outLen = MaxStream /\ input \in Inputs
                        /\ op = "Decompress" =>
                             (roundTrip \/ input \in WellFormed) /\ outLen = MaxLen]

\* the process runs and the codec has not been destroyed
Alive == ~aborted /\ last.op # "Destroy"

DoInit ==
  /\ Alive
  /\ Called("Init", CodecInit(codec), <<>>, 0, <<>>, FALSE)

DoCompress ==
  /\ Alive
  /\ \E input \in Inputs \cup {LongInput}, output_buffer_len \in OutLens :
       Called("Compress", CodecCompress(codec, input, output_buffer_len),
              input, output_buffer_len, <<>>, FALSE)

\* Compress into a buffer of the size the MaxCompressedLen call just before
\* returned for the length of this input
DoCompressToBound ==
  /\ Alive
  /\ last.op = "MaxCompressedLen"
  /\ \E input \in Inputs \cup {LongInput} :
       /\ Len(input) = last.outLen
       /\ Called("Compress", CodecCompress(codec, input, last.result.value),
                 input, last.result.value, <<>>, FALSE)

DoDecompress ==
  /\ Alive
  /\ \E input \in CompressedInputs, output_buffer_length \in 0..MaxLen :
       Called("Decompress", CodecDecompress(codec, input, output_buffer_length),
              input, output_buffer_length, <<>>, FALSE)

\* Decompress of what the Compress call just before produced
DoRoundTrip ==
  /\ Alive
  /\ last.op = "Compress" /\ last.result.ok
  /\ \E output_buffer_length \in 0..MaxLen :
       Called("Decompress", CodecDecompress(codec, last.result.out, output_buffer_length),
              last.result.out, output_buffer_length, last.input, TRUE)

DoMaxCompressedLen ==
  /\ Alive
  /\ \E input_length \in (0..MaxLen) \cup {LongLen} :
       Called("MaxCompressedLen", CodecMaxCompressedLen(codec, input_length),
              <<>>, input_length, <<>>, FALSE)

\* the codec is destroyed; nothing is called on it afterwards
DoDestroy ==
  /\ Alive
  /\ Called("Destroy", CodecDestroy(codec), <<>>, 0, <<>>, FALSE)

Next ==
  \/ DoInit \/ DoCompress \/ DoCompressToBound \/ DoDecompress \/ DoRoundTrip
  \/ DoMaxCompressedLen \/ DoDestroy

Spec == Init /\ [][Next]_vars

\* ----------------------------------------------------------------------
\* A streaming decompression session made by the codec and driven by a caller

InitStream ==
  /\ \E format \in Formats : codec = GZipCodec(kUseDefaultCompressionLevel, format)
  /\ last = NoCall
  /\ aborted = FALSE
  /\ dec = MakeDecompressor(codec)
  /\ feed \in CompressedInputs
  /\ produced = <<>>
  /\ dlast = NoStreamCall
  /\ NoCompressor

\* the caller offers the next n bytes of its stream and output_len bytes of room
StreamDecompress ==
  /\ ~aborted
  /\ \E n \in 0..Len(feed), output_len \in 0..MaxLen :
       LET o == DecompressorDecompress(dec, Take(feed, n), output_len)
       IN /\ dec' = o.d
          /\ aborted' = o.aborted
          /\ feed' = IF o.aborted THEN feed ELSE Drop(feed, o.result.detail.bytes_read)
          /\ produced' = produced \o o.out
          /\ dlast' = [op |-> "Decompress", input |-> Take(feed, n),
                       outLen |-> output_len, result |-> o.result, iret |-> o.iret,
                       consumed |-> o.consumed]
  /\ UNCHANGED <<codec, last, compVars, backendVars>>

\* the caller resets the session and starts over on another stream
StreamReset ==
  /\ ~aborted
  /\ dlast.op # "Reset"
  /\ dec' = DecompressorReset(dec)
  /\ feed' \in CompressedInputs
  /\ produced' = <<>>
  /\ dlast' = [NoStreamCall EXCEPT !.op = "Reset"]
  /\ UNCHANGED <<codec, last, aborted, compVars, backendVars>>

NextDecompressor == StreamDecompress \/ StreamReset

SpecDecompressor == InitStream /\ [][NextDecompressor]_vars

\* ----------------------------------------------------------------------
\* A streaming compression session made by the codec and driven by a caller,
\* and a streaming decompression session fed with what it produced

\* output buffer lengths of the streaming calls: none, one the size of a
\* flush marker, room for everything
StreamOutLens == {0, 2, MaxEmitted + MaxStream}

\* what the engine has to deliver for this flush mode, given all the room
Buffered(s, flush) ==
  Deflate(s, <<>>, Len(s.pending) + Len(s.window) + 9, flush).out

InitCompress ==
  /\ \E level \in Levels, format \in Formats : codec = GZipCodec(level, format)
  /\ last = NoCall
  /\ aborted = FALSE
  /\ dec = GZipDecompressor(codec.format_)
  /\ feed = <<>>
  /\ produced = <<>>
  /\ dlast = NoStreamCall
  /\ todo \in Inputs
  /\ emitted = <<>>
  /\ clast = NoCompressorCall
  /\ build = FALSE
  /\ env = Unset
  /\ made = NothingMade
  /\ LET mk == MakeCompressor(codec)
     IN /\ comp = mk.c
        /\ life = [NoLife EXCEPT !.src = todo, !.made = mk.result.ok,
                                 !.inits = IF mk.result.ok THEN 1 ELSE 0,
                                 !.destroyed = ~mk.result.ok,
                                 !.phase = "compress"]

\* the bookkeeping the compressor's calls share
Streaming(op, o, input_len, output_len, flush) ==
  LET live == comp.stream_.status # "NONE"
      ended == \E i \in 1..Len(o.calls) : o.calls[i] = "deflateEnd"
      goesOn == /\ clast.op = op /\ clast.drain.calls > 0
                /\ clast.result.detail.should_retry
      drain == IF op \notin {"Flush", "End"} \/ ~o.result.ok \/ output_len = 0
               THEN NoDrain
               ELSE IF goesOn
               THEN [clast.drain EXCEPT !.got = @ \o o.out, !.calls = @ + 1,
                                        !.minLen = Min(@, output_len)]
               ELSE [buffered |-> Buffered(comp.stream_, flush), got |-> o.out,
                     calls |-> 1, minLen |-> output_len]
  IN /\ comp' = o.c
     /\ aborted' = o.aborted
     /\ emitted' = emitted \o o.out
     /\ clast' = [op |-> op, inLen |-> input_len, outLen |-> output_len,
                  result |-> o.result, zret |-> o.zret, out |-> o.out,
                  consumed |-> o.consumed, calls |-> o.calls,
                  before |-> comp.stream_.status, drain |-> drain]
     /\ life' = [life EXCEPT !.ends = IF ended THEN @ + 1 ELSE @,
                              !.releases = IF ended /\ live THEN @ + 1 ELSE @,
                              !.destroyed = (op = "Destroy")]
     /\ UNCHANGED <<codec, last, streamVars, backendVars>>

CanStream ==
  /\ ~aborted /\ life.made /\ ~life.destroyed /\ life.phase = "compress"
  /\ Len(emitted) <= MaxEmitted

\* the caller offers the next n bytes of its data and output_len bytes of room
CompressChunk ==
  /\ CanStream
  /\ \E n \in 0..Len(todo), output_len \in StreamOutLens, dcheck \in BOOLEAN :
       LET o == CompressorCompress(comp, Take(todo, n), output_len, dcheck)
       IN /\ Streaming("Compress", o, n, output_len, Z_NO_FLUSH)
          /\ todo' = IF o.result.ok /\ ~o.aborted
                     THEN Drop(todo, o.result.detail.bytes_read) ELSE todo

FlushOut ==
  /\ CanStream
  /\ \E output_len \in StreamOutLens, dcheck \in BOOLEAN :
       Streaming("Flush", CompressorFlush(comp, output_len, dcheck), 0, output_len,
                 Z_SYNC_FLUSH)
  /\ UNCHANGED todo

EndStream ==
  /\ CanStream
  /\ \E output_len \in StreamOutLens, dcheck \in BOOLEAN :
       Streaming("End", CompressorEnd(comp, output_len, dcheck), 0, output_len, Z_FINISH)
  /\ UNCHANGED todo

\* the last reference to the compressor goes away
Destroy ==
  /\ ~aborted /\ life.made /\ ~life.destroyed /\ life.phase = "compress"
  /\ Streaming("Destroy", CompressorDestroy(comp), 0, 0, Z_NO_FLUSH)
  /\ UNCHANGED todo

\* the stream is complete: End has closed it after all the data went in.  The
\* caller makes a decompressor from the same codec and feeds it the stream
HandOver ==
  /\ ~aborted /\ life.phase = "compress" /\ todo = <<>>
  /\ clast.op = "End" /\ clast.result.ok /\ ~clast.result.detail.should_retry
  /\ life' = [life EXCEPT !.phase = "decompress"]
  /\ dec' = MakeDecompressor(codec)
  /\ feed' = emitted
  /\ produced' = <<>>
  /\ dlast' = NoStreamCall
  /\ UNCHANGED <<codec, last, aborted, comp, todo, emitted, clast, backendVars>>

\* the caller offers the decompressor what is left of the stream, and a
\* buffer for one byte or for all the data
Unpack ==
  /\ ~aborted /\ life.phase = "decompress"
  /\ \E output_len \in {1, MaxLen} :
       LET o == DecompressorDecompress(dec, feed, output_len)
       IN /\ dec' = o.d
          /\ aborted' = o.aborted
          /\ feed' = IF o.aborted THEN feed ELSE Drop(feed, o.result.detail.bytes_read)
          /\ produced' = produced \o o.out
          /\ dlast' = [op |-> "Decompress", input |-> feed,
                       outLen |-> output_len, result |-> o.result, iret |-> o.iret,
                       consumed |-> o.consumed]
  /\ UNCHANGED <<codec, last, compVars, backendVars>>

NextCompressor ==
  CompressChunk \/ FlushOut \/ EndStream \/ Destroy \/ HandOver \/ Unpack

SpecCompressor == InitCompress /\ [][NextCompressor]_vars

\* ----------------------------------------------------------------------
\* Streaming with lengths on both sides of what the engine's 32-bit counters
\* hold: the caller offers all the data it has left in one call, and buffers
\* of no room or of more room than input_limit

\* a length the engine's counters cannot hold
ClampLen == input_limit + 2

LongData == [i \in 1..ClampLen |-> 1]

ClampOutLens == {0, ClampLen}

InitClamp ==
  /\ \E format \in Formats : codec = GZipCodec(kUseDefaultCompressionLevel, format)
  /\ last = NoCall
  /\ aborted = FALSE
  /\ dec = GZipDecompressor(codec.format_)
  /\ feed = <<>>
  /\ produced = <<>>
  /\ dlast = NoStreamCall
  /\ todo \in Inputs \cup {LongData}
  /\ emitted = <<>>
  /\ clast = NoCompressorCall
  /\ build = FALSE
  /\ env = Unset
  /\ made = NothingMade
  /\ LET mk == MakeCompressor(codec)
     IN /\ comp = mk.c
        /\ life = [NoLife EXCEPT !.src = todo, !.made = mk.result.ok,
                                 !.inits = IF mk.result.ok THEN 1 ELSE 0,
                                 !.destroyed = ~mk.result.ok,
                                 !.phase = "compress"]

CanClamp ==
  /\ ~aborted /\ life.made /\ ~life.destroyed /\ life.phase = "compress"
  /\ Len(emitted) <= Len(life.src) + MaxEmitted

\* Compress is offered all the data that is left
OfferAll ==
  /\ CanClamp
  /\ \E output_len \in ClampOutLens :
       LET o == CompressorCompress(comp, todo, output_len, TRUE)
       IN /\ Streaming("Compress", o, Len(todo), output_len, Z_NO_FLUSH)
          /\ todo' = IF o.result.ok /\ ~o.aborted
                     THEN Drop(todo, o.result.detail.bytes_read) ELSE todo

FlushAll ==
  /\ CanClamp
  /\ \E output_len \in ClampOutLens :
       Streaming("Flush", CompressorFlush(comp, output_len, TRUE), 0, output_len,
                 Z_SYNC_FLUSH)
  /\ UNCHANGED todo

EndAll ==
  /\ CanClamp
  /\ \E output_len \in ClampOutLens :
       Streaming("End", CompressorEnd(comp, output_len, TRUE), 0, output_len, Z_FINISH)
  /\ UNCHANGED todo

\* Decompress is offered all of the stream that is left
UnpackAll ==
  /\ ~aborted /\ life.phase = "decompress"
  /\ \E output_len \in ClampOutLens :
       LET o == DecompressorDecompress(dec, feed, output_len)
       IN /\ dec' = o.d
          /\ aborted' = o.aborted
          /\ feed' = IF o.aborted THEN feed ELSE Drop(feed, o.result.detail.bytes_read)
          /\ produced' = produced \o o.out
          /\ dlast' = [op |-> "Decompress", input |-> feed,
                       outLen |-> output_len, result |-> o.result, iret |-> o.iret,
                       consumed |-> o.consumed]
  /\ UNCHANGED <<codec, last, compVars, backendVars>>

NextClamp ==
  OfferAll \/ FlushAll \/ EndAll \/ HandOver \/ UnpackAll

SpecClamp == InitClamp /\ [][NextClamp]_vars

\* ----------------------------------------------------------------------
\* Backend selection: the environment changes, codecs are made by
\* MakeGZipCodec, and the codec made last is called

\* the hardware label in every mix of cases
QatLabels == {<<q, a, t>> : q \in {"q", "Q"}, a \in {"a", "A"}, t \in {"t", "T"}}

\* values of ARROW_GZIP_BACKEND: empty, the hardware label, other labels
\* (among them a prefix and an extension of the hardware label)
EnvValues ==
  {<<>>} \cup QatLabels
    \cup {<<"z">>, <<"Z">>, <<"q", "a">>, <<"Q", "A", "T", "1">>, <<"1", "q", "a", "t">>}

InitBackend ==
  /\ codec = GZipCodec(kUseDefaultCompressionLevel, "GZIP")
  /\ last = NoCall
  /\ aborted = FALSE
  /\ dec = GZipDecompressor(codec.format_)
  /\ feed = <<>>
  /\ produced = <<>>
  /\ dlast = NoStreamCall
  /\ comp = GZipCompressor(codec.compression_level_)
  /\ todo = <<>>
  /\ emitted = <<>>
  /\ clast = NoCompressorCall
  /\ life = NoLife
  /\ build \in BOOLEAN
  /\ env = Unset
  /\ made = NothingMade

\* setenv / unsetenv of ARROW_GZIP_BACKEND somewhere in the process
SetEnv ==
  /\ env' \in {Unset} \cup {[set |-> TRUE, value |-> v] : v \in EnvValues}
  /\ env' # env
  /\ UNCHANGED <<codecVars, streamVars, compVars, build, made>>

Construct ==
  /\ \E compression_level \in Levels, format \in Formats :
       LET r == MakeGZipCodec(compression_level, format, env, build)
       IN made' = [op |-> "MakeGZipCodec", codec |-> r.codec, warnings |-> r.warnings,
                   read |-> env, changed |-> (made.op # "none" /\ made.read # env),
                   result |-> Returned("OK", "", <<>>, 0, "none")]
  /\ UNCHANGED <<codecVars, streamVars, compVars, build, env>>

\* a call on the codec made last
OnMade(op, result) ==
  /\ made' = [made EXCEPT !.op = op, !.result = result]
  /\ UNCHANGED <<codecVars, streamVars, compVars, build, env>>

\* the Result of a streaming factory of the software codec
Session(o, kind) ==
  IF o.result.ok THEN Returned("OK", "", <<>>, 0, kind)
  ELSE Returned("IOError", o.result.msg, o.result.detail, 0, "none")

CallMakeCompressor ==
  /\ made.codec.kind # "none"
  /\ OnMade("MakeCompressor",
            IF made.codec.kind = "QatCodec" THEN QatMakeCompressor
            ELSE Session(MakeCompressor(made.codec.codec), "GZipCompressor"))

CallMakeDecompressor ==
  /\ made.codec.kind # "none"
  /\ OnMade("MakeDecompressor",
            IF made.codec.kind = "QatCodec" THEN QatMakeDecompressor
            ELSE Returned("OK", "", <<>>, 0, "GZipDecompressor"))

\* one-shot calls on the hardware codec; the engine decides what they return
QatOneShot ==
  /\ made.codec.kind = "QatCodec"
  /\ \E input \in Inputs, ret \in QzStatus, size \in 0..MaxLen :
       \/ OnMade("Compress", QatCompress(input, MaxStream, ret, size))
       \/ OnMade("Decompress", QatDecompress(input, MaxLen, ret, size))
       \/ OnMade("MaxCompressedLen", QatMaxCompressedLen(Len(input), Len(input) + size))

NextBackend ==
  SetEnv \/ Construct \/ CallMakeCompressor \/ CallMakeDecompressor \/ QatOneShot

SpecBackend == InitBackend /\ [][NextBackend]_vars

\* ----------------------------------------------------------------------
\* Properties of the one-shot codec (checked under Spec)

TooSmallBuffer == "Too small a buffer passed to GZipCodec."

\* engine calls that set a session up or tear one down
SessionSetup ==
  {"deflateInit2", "deflateEnd", "isal_inflate_init", "EndDecompressor:isal_inflate_reset"}

NoSessionSetup(calls) == \A i \in 1..Len(calls) : calls[i] \notin SessionSetup

Made(call) == \E i \in 1..Len(last.calls) : last.calls[i] = call

\* C1: the compression session and the decompression session of one codec are
\* never both active; whichever direction is active, the other one's session
\* has been torn down (released stream, reset inflate state).
C1_MutualExclusion ==
  /\ ~(codec.compressor_initialized_ /\ codec.decompressor_initialized_)
  /\ codec.decompressor_initialized_ => codec.stream_ = ZeroStream
  /\ codec.compressor_initialized_ => codec.state_ = InflateReset(codec.state_)

\* a Compress that found the decompression session active and switched direction
C1_Witness ==
  /\ last.op = "Compress"
  /\ Len(last.calls) >= 2
  /\ last.calls[1] = "EndDecompressor:isal_inflate_reset"
  /\ last.calls[2] = "deflateInit2"
  /\ codec.compressor_initialized_

\* C2 as claimed: after a successful Init() both directions are active, and the
\* first one-shot call in either direction sets no session up and tears none down.
C2_BothActiveAfterInit ==
  /\ (last.op = "Init" /\ last.result.ok) =>
       (codec.compressor_initialized_ /\ codec.decompressor_initialized_)
  /\ (last.afterInit /\ last.op \in {"Compress", "Decompress"}) =>
       NoSessionSetup(last.calls)

\* C2 as amended: after a successful Init() only the decompression session is
\* active; a first Decompress sets nothing up and tears nothing down, a first
\* Compress tears the decompression session down and initializes compression.
C2_DecompressorActiveAfterInit ==
  /\ (last.op = "Init" /\ last.result.ok) =>
       (~codec.compressor_initialized_ /\ codec.decompressor_initialized_)
  /\ (last.afterInit /\ last.op = "Decompress") => NoSessionSetup(last.calls)
  /\ (last.afterInit /\ last.op = "Compress") =>
       SubSeq(last.calls, 1, 2) = <<"EndDecompressor:isal_inflate_reset", "deflateInit2">>

\* the first Compress after a successful Init()
C2_Witness == last.afterInit /\ last.op = "Compress" /\ last.result.ok

\* C3: Decompress of what Compress made of b, with room for b, returns exactly b,
\* for each format.
C3_RoundTrip ==
  (last.roundTrip /\ last.outLen >= Len(last.src)) =>
    last.result = Ok(Len(last.src), last.src)

\* the codec as it is right after construction
FreshCodec == GZipCodec(codec.compression_level_, codec.format_)

\* C4: when every Compress had room and every Decompress had a complete stream
\* and room, each call returns what the same call returns on a fresh codec.
C4_DirectionSwitchSafety ==
  /\ (last.clean /\ last.op = "Compress") =>
       last.result = CodecCompress(FreshCodec, last.input, last.outLen).result
  /\ (last.clean /\ last.op = "Decompress") =>
       last.result = CodecDecompress(FreshCodec, last.input, last.outLen).result

\* a successful Compress right after a switch from decompression, all calls well-sized
C4_Witness ==
  /\ last.clean /\ last.op = "Compress" /\ last.result.ok /\ last.input # <<>>
  /\ Made("EndDecompressor:isal_inflate_reset")

\* C5: Decompress of a well-formed stream into a non-empty buffer smaller than
\* its data fails with the too-small-buffer error carrying both lengths.
C5_BufferTooSmall ==
  (last.op = "Decompress" /\ last.roundTrip
     /\ 0 < last.outLen /\ last.outLen < Len(last.src)) =>
    last.result = IOError(TooSmallBuffer,
                          <<"InputLength=", Len(last.input), "OutputLength=", last.outLen>>)

\* C7: the too-small-buffer error is returned only when the engine did not
\* reject the stream; a stream the engine rejects fails with another error.
C7_ErrorClasses ==
  (last.op = "Decompress" /\ last.iret # <<>>) =>
    /\ last.result.msg = TooSmallBuffer => last.iret[1] >= 0
    /\ last.iret[1] < 0 => (~last.result.ok /\ last.result.msg # TooSmallBuffer)

\* C8: Decompress with an empty output buffer returns 0 bytes, successfully,
\* for every non-empty input and from every codec state.
C8_ZeroCapacity ==
  (last.op = "Decompress" /\ last.outLen = 0 /\ last.input # <<>>) =>
    last.result = Ok(0, <<>>)

\* a damaged stream handed over with no room while the compressor was active
C8_Witness ==
  /\ last.op = "Decompress" /\ last.outLen = 0 /\ last.input \in Damaged
  /\ Made("deflateEnd")
  /\ last.result = Ok(0, <<>>)

\* C9: Decompress with an empty output buffer leaves the codec (which session
\* is active, and the sessions themselves) as it was.
C9_ZeroCapacityFrame ==
  [][(last'.op = "Decompress" /\ last'.outLen = 0) => codec' = codec]_vars

\* C10: Compress returns the output-buffer-too-small error exactly when deflate
\* returned Z_OK, and the engine error with the engine's message exactly when
\* deflate returned anything else but Z_STREAM_END.
C10_CompressFailures ==
  (last.op = "Compress" /\ last.zret # "none") =>
    /\ last.zret = Z_OK <=>
         last.result = IOError("zlib deflate failed, output buffer too small", <<>>)
    /\ last.zret \notin {Z_OK, Z_STREAM_END} <=>
         (~last.result.ok /\ last.result.msg = "zlib deflate failed: ")
    /\ last.result.msg = "zlib deflate failed: " =>
         last.result.detail = <<codec.stream_.msg>> /\ codec.stream_.msg # "NULL"

\* deflate refused to run (no room at all) and Compress passed its message on
C10_Witness ==
  /\ last.op = "Compress" /\ last.zret = Z_BUF_ERROR
  /\ last.result = IOError("zlib deflate failed: ", <<"buffer error">>)

\* deflate stopped short of the end and Compress reported the buffer
C10_WitnessTooSmall ==
  /\ last.op = "Compress" /\ last.zret = Z_OK /\ ~last.result.ok

\* C11: MaxCompressedLen(n) is the engine's bound for n plus 12, in every codec
\* state, and Compress of an n-byte input into a buffer of MaxCompressedLen(n)
\* bytes never fails with the output-buffer-too-small error.
C11_BoundSoundness ==
  [][/\ (last'.op = "MaxCompressedLen" /\ ~aborted') =>
          last'.result = Ok(DeflateBound(codec'.stream_, last'.outLen) + 12, <<>>)
     /\ (last.op = "MaxCompressedLen" /\ last'.op = "Compress"
           /\ Len(last'.input) = last.outLen /\ last'.outLen = last.result.value) =>
          last'.result.msg # "zlib deflate failed, output buffer too small"]_vars

\* ----------------------------------------------------------------------
\* Properties of the streaming compressor (checked under SpecCompressor)

IsPrefix(s, u) == Len(s) <= Len(u) /\ s = SubSeq(u, 1, Len(s))

\* C12: the bytes that streaming Compress, Flush and End (repeated until no
\* retry is asked) produced for b, fed to a streaming decompressor of the same
\* codec, decompress to exactly b and leave it finished.
C12_StreamingEquivalence ==
  life.phase = "decompress" =>
    /\ ~aborted
    /\ IsPrefix(produced, life.src)
    /\ dec.finished_ => produced = life.src
    /\ (feed = <<>> /\ produced = life.src) => dec.finished_

\* C13: in a run of Flush (or End) calls with non-empty buffers, repeated while
\* a retry is asked for, the bytes delivered are the bytes the engine had
\* buffered, in order and no more; the run is over (no retry asked) within
\* buffered size / buffer size + 2 calls, and then all of them are delivered.
C13_DrainTermination ==
  (clast.op \in {"Flush", "End"} /\ clast.drain.calls > 0) =>
    /\ IsPrefix(clast.drain.got, clast.drain.buffered)
    /\ clast.drain.calls <= Len(clast.drain.buffered) \div clast.drain.minLen + 2
    /\ ~clast.result.detail.should_retry => clast.drain.got = clast.drain.buffered

\* C14: a successful Flush asks for a retry exactly when the call left no room
\* in the output buffer it was given; running out of room is never an error
\* (Flush fails only on a stream that is closed or that End has begun to finish).
C14_FlushRetryFlag ==
  clast.op = "Flush" =>
    /\ clast.result.ok =>
         /\ clast.result.detail.should_retry <=> (Len(clast.out) = clast.outLen)
         /\ clast.result.detail.bytes_written = Len(clast.out)
    /\ clast.zret \in {Z_OK, Z_BUF_ERROR} => clast.result.ok
    /\ ~clast.result.ok => clast.before \in {"NONE", "FINISH_STATE"}

\* a Flush that filled a non-empty buffer and asked for a retry
C14_Witness ==
  /\ clast.op = "Flush" /\ clast.result.ok /\ clast.result.detail.should_retry
  /\ clast.outLen > 0 /\ Len(clast.out) = clast.outLen

\* a Flush that was given no room at all: a retry is asked for, no error
C14_WitnessNoRoom ==
  /\ clast.op = "Flush" /\ clast.outLen = 0 /\ clast.zret = Z_BUF_ERROR
  /\ clast.result.ok /\ clast.result.detail.should_retry

\* C15: End answers "no retry" exactly in the call where the engine reports
\* the end of the stream; that call releases the session and closes the
\* instance; deflateEnd is never called on a released session, and once the
\* compressor is destroyed each successful Init has had exactly one release.
C15_CloseAndRelease ==
  /\ (clast.op = "End" /\ clast.result.ok) =>
       (~clast.result.detail.should_retry <=> clast.zret = Z_STREAM_END)
  /\ (clast.op = "End" /\ clast.result.ok /\ ~clast.result.detail.should_retry) =>
       /\ ~comp.initialized_ /\ comp.stream_ = ZeroStream
       /\ clast.calls = <<"deflate", "deflateEnd">>
  /\ life.ends = life.releases
  /\ life.releases <= life.inits
  /\ ~life.destroyed => (comp.initialized_ <=> life.releases < life.inits)
  /\ life.destroyed => life.releases = life.inits

\* a compressor that End closed and that was destroyed afterwards: the
\* destructor had nothing left to release
C15_Witness ==
  /\ clast.op = "Destroy" /\ clast.calls = <<>>
  /\ life.destroyed /\ life.inits = 1 /\ life.releases = 1

\* a compressor destroyed in the middle of a stream: the destructor released it
C15_WitnessDestructor ==
  /\ clast.op = "Destroy" /\ clast.calls = <<"deflateEnd">>
  /\ emitted # <<>> /\ life.inits = 1 /\ life.releases = 1

\* ----------------------------------------------------------------------
\* Properties of the streaming decompressor (checked under SpecDecompressor)

\* C6: when the engine rejects the input, streaming Decompress returns a
\* failure and the process goes on.
C6_FailureNotAbort ==
  (dlast.op = "Decompress" /\ dlast.iret # <<>> /\ dlast.iret[1] # ISAL_DECOMP_OK) =>
    (~aborted /\ ~dlast.result.ok)

\* C16: a Decompress call that reads nothing and writes nothing, on a stream
\* that is not finished and with input on offer, only because its output
\* buffer has no room (with one more byte of room it would have written),
\* succeeds and reports that the output was too small.
C16_OutputTooSmall ==
  [][(/\ dlast'.op = "Decompress" /\ dlast'.result.ok
      /\ dlast'.input # <<>> /\ ~dec'.finished_
      /\ dlast'.result.detail.bytes_read = 0
      /\ dlast'.result.detail.bytes_written = 0
      /\ DecompressorDecompress(dec, dlast'.input, dlast'.outLen + 1).out # <<>>)
     => dlast'.result.detail.need_more_output]_vars

\* the input the engine has consumed is a whole stream: wrapper header, blocks
\* up to and including the final one, trailer, and all its data has been written
ReachedEnd(st) ==
  LET h == ParseHeader(st.crc_flag, st.acc)
      b == ParseBlocks(st.acc, h.pos, <<>>)
  IN /\ h.done /\ b.code = ISAL_DECOMP_OK /\ b.final
     /\ Len(st.acc) = b.pos + Len(WrapTrailer(FlagWrap(st.crc_flag), 0, 0))
     /\ st.total_out = Len(b.data)

\* C17: IsFinished() is false after Init and after every Reset; it turns true
\* in a Decompress call, the one in which the engine consumes the end of the
\* stream; and once true it stays true until Reset is called.
C17_FinishedStateMachine ==
  /\ ~dec.finished_
  /\ [][/\ dlast'.op = "Reset" => ~dec'.finished_
        /\ (dec.finished_ /\ dlast'.op # "Reset") => dec'.finished_
        /\ (~dec.finished_ /\ dec'.finished_) =>
             (dlast'.op = "Decompress" /\ ~ReachedEnd(dec.stream_))
        /\ dlast'.op = "Decompress" => (dec'.finished_ <=> ReachedEnd(dec'.stream_))]_vars

\* a Decompress call on a finished decompressor that left it finished
C17_Witness ==
  /\ dlast.op = "Decompress" /\ dlast.input = <<>> /\ dlast.result.ok
  /\ dec.finished_ /\ produced # <<>>

\* a Reset of a finished decompressor
C17_WitnessReset ==
  /\ dlast.op = "Reset" /\ ~dec.finished_ /\ feed \in WellFormed

\* ----------------------------------------------------------------------
\* Properties of backend selection (checked under SpecBackend)

\* the configuration value names a backend that is not the hardware one
Unrecognized(v) == v.set /\ v.value # <<>> /\ v.value \notin QatLabels

\* C18: MakeGZipCodec returns a codec for every value of ARROW_GZIP_BACKEND:
\* the software codec when it is unset or empty, the hardware codec for QAT in
\* any mix of cases when the build has it and the software codec when not, the
\* software codec for every other value.
C18_BackendSelection ==
  made.op # "none" =>
    /\ made.codec.kind \in {"GZipCodec", "QatCodec"}
    /\ (~made.read.set \/ made.read.value = <<>>) => made.codec.kind = "GZipCodec"
    /\ (made.read.set /\ made.read.value \in QatLabels) =>
         made.codec.kind = IF build THEN "QatCodec" ELSE "GZipCodec"
    /\ Unrecognized(made.read) => made.codec.kind = "GZipCodec"

\* the hardware codec chosen for a label in mixed case
C18_Witness ==
  /\ made.op = "MakeGZipCodec" /\ build
  /\ made.read.value = <<"q", "A", "t">> /\ made.codec.kind = "QatCodec"

C19_WitnessNotBuilt ==
  /\ made.op = "MakeGZipCodec" /\ ~build /\ made.read.value \in QatLabels
  /\ made.warnings = <<[text |-> "Support for codec QAT not built", value |-> <<>>]>>

\* C20: on the hardware codec MakeCompressor and MakeDecompressor fail with
\* NotImplemented and hand out no session, software or other; the one-shot
\* calls are implemented.
C20_HardwareStreamingUnsupported ==
  made.codec.kind = "QatCodec" =>
    /\ made.op \in {"MakeCompressor", "MakeDecompressor"} =>
         (made.result.code = "NotImplemented" /\ made.result.session = "none")
    /\ made.op \in {"Compress", "Decompress", "MaxCompressedLen"} =>
         made.result.code # "NotImplemented"

\* MakeCompressor refused by the hardware codec
C20_Witness ==
  /\ made.codec.kind = "QatCodec" /\ made.op = "MakeCompressor"
  /\ made.result = NotImplemented("Streaming compression unsupported with QAT")

\* a one-shot Compress the hardware codec carried out
C20_WitnessOneShot ==
  /\ made.codec.kind = "QatCodec" /\ made.op = "Compress" /\ made.result.code = "OK"

\* ----------------------------------------------------------------------
\* C21: every successful streaming Compress reports bytes_read within
\* 0..input_len and bytes_written within 0..output_len, every successful
\* Flush and End reports bytes_written within 0..output_len, every
\* successful streaming Decompress reports both counts within the lengths it
\* was given, also for lengths above input_limit; and a Compress in which
\* deflate returned Z_BUF_ERROR succeeds with exactly {0, 0}
C21_ProgressBounds ==
  /\ (clast.op = "Compress" /\ clast.result.ok /\ ~aborted) =>
        /\ clast.result.detail.bytes_read \in 0..clast.inLen
        /\ clast.result.detail.bytes_written \in 0..clast.outLen
  /\ (clast.op \in {"Flush", "End"} /\ clast.result.ok /\ ~aborted) =>
        clast.result.detail.bytes_written \in 0..clast.outLen
  /\ (clast.op = "Compress" /\ clast.zret = Z_BUF_ERROR) =>
        /\ clast.result.ok /\ ~aborted
        /\ clast.result.detail = [bytes_read |-> 0, bytes_written |-> 0]
  /\ (dlast.op = "Decompress" /\ dlast.result.ok /\ ~aborted) =>
        /\ dlast.result.detail.bytes_read \in 0..Len(dlast.input)
        /\ dlast.result.detail.bytes_written \in 0..dlast.outLen

\* a Compress of more than input_limit bytes made progress
C21_Witness ==
  /\ clast.op = "Compress" /\ clast.result.ok /\ clast.zret = Z_OK
  /\ clast.inLen > input_limit /\ clast.outLen > input_limit
  /\ clast.consumed > 0

\* a Compress in which the engine made no progress
C21_WitnessBufError ==
  clast.op = "Compress" /\ clast.zret = Z_BUF_ERROR /\ clast.inLen > 0

\* a Decompress of more than input_limit bytes into more than input_limit
\* bytes of room
C21_WitnessDecompress ==
  /\ dlast.op = "Decompress" /\ dlast.result.ok
  /\ Len(dlast.input) > input_limit /\ dlast.outLen > input_limit
  /\ Len(dlast.result.out) > 0

\* ----------------------------------------------------------------------
\* C25: for every input_len and output_len, also above input_limit, the
\* bytes_read and bytes_written of a streaming Compress and Decompress, and
\* the bytes_written of Flush and End, are the numbers of bytes the engine
\* consumed and produced in that call
C25_CountsMatchEngine ==
  /\ (clast.op = "Compress" /\ clast.result.ok /\ ~aborted) =>
        /\ clast.result.detail.bytes_read = clast.consumed
        /\ clast.result.detail.bytes_written = Len(clast.out)
  /\ (clast.op \in {"Flush", "End"} /\ clast.result.ok /\ ~aborted) =>
        clast.result.detail.bytes_written = Len(clast.out)
  /\ (dlast.op = "Decompress" /\ dlast.result.ok /\ ~aborted) =>
        /\ dlast.result.detail.bytes_read = dlast.consumed
        /\ dlast.result.detail.bytes_written = Len(dlast.result.out)

\* the same for calls whose lengths are all within input_limit
C25_CountsMatchWithinLimit ==
  /\ (/\ clast.op \in {"Compress", "Flush", "End"} /\ clast.result.ok /\ ~aborted
      /\ clast.inLen <= input_limit /\ clast.outLen <= input_limit) =>
        /\ clast.op = "Compress" => clast.result.detail.bytes_read = clast.consumed
        /\ clast.result.detail.bytes_written = Len(clast.out)
  /\ (/\ dlast.op = "Decompress" /\ dlast.result.ok /\ ~aborted
      /\ Len(dlast.input) <= input_limit /\ dlast.outLen <= input_limit) =>
        /\ dlast.result.detail.bytes_read = dlast.consumed
        /\ dlast.result.detail.bytes_written = Len(dlast.result.out)

\* ----------------------------------------------------------------------
\* the engine calls of one codec call, in order, each applied to a session
\* in the state it requires: an init only where no session is active, a
\* teardown only where one is; dLive and iLive say whether a deflate and an
\* inflate session are active before the first call, works whether
\* deflateInit2 succeeds for this codec
RECURSIVE InOrder(_, _, _, _)
InOrder(calls, dLive, iLive, works) ==
  IF calls = <<>> THEN TRUE
  ELSE LET e == Head(calls)
           rest == Tail(calls)
       IN CASE e = "deflateInit2" ->
                 ~dLive /\ InOrder(rest, works, iLive, works)
            [] e = "deflateEnd" ->
                 dLive /\ InOrder(rest, FALSE, iLive, works)
            [] e = "isal_inflate_init" ->
                 ~iLive /\ InOrder(rest, dLive, TRUE, works)
            [] e = "EndDecompressor:isal_inflate_reset" ->
                 iLive /\ InOrder(rest, dLive, FALSE, works)
            [] OTHER -> InOrder(rest, dLive, iLive, works)

\* C22: over any sequence of Init, Compress, Decompress and MaxCompressedLen
\* calls followed by the destruction of the codec, no engine session is
\* initialized over one that is still active, no teardown is applied to a
\* session that is not active, and after the destruction no session is
\* active: every session that was initialized is torn down exactly once
C22_TeardownExactlyOnce ==
  /\ [](last.op = "Destroy" =>
          /\ codec.stream_.status = "NONE"
          /\ ~codec.compressor_initialized_ /\ ~codec.decompressor_initialized_)
  /\ [][InOrder(last'.calls, codec.stream_.status # "NONE",
                codec.decompressor_initialized_,
                DeflateInit2(-1, CompressionWindowBitsForFormat(codec.format_),
                             codec.compression_level_).ret = Z_OK)]_vars

\* ----------------------------------------------------------------------
\* the framing variant (0 raw deflate, 1 zlib, 2 gzip) of the compression
\* sessions of a codec of this format
CompressionFraming(format) ==
  MakeCompressor(GZipCodec(kUseDefaultCompressionLevel, format)).c.stream_.wrap

\* C23: for each of the three formats, the decompression session of a codec,
\* the one-shot one and the one MakeDecompressor makes, is configured for
\* the framing variant the codec's compression sessions use
C23_DecompressionFraming ==
  /\ codec.decompressor_initialized_ =>
        FlagWrap(codec.state_.crc_flag) = CompressionFraming(codec.format_)
  /\ dec.initialized_ =>
        FlagWrap(dec.stream_.crc_flag) = CompressionFraming(dec.format_)

\* the same for the gzip format alone
C23_GzipFraming ==
  /\ (codec.decompressor_initialized_ /\ codec.format_ = "GZIP") =>
        FlagWrap(codec.state_.crc_flag) = CompressionFraming(codec.format_)
  /\ (dec.initialized_ /\ dec.format_ = "GZIP") =>
        FlagWrap(dec.stream_.crc_flag) = CompressionFraming(dec.format_)

\* ----------------------------------------------------------------------
\* C24: when a one-shot Compress has failed in the engine (the output buffer
\* was too small, or deflate reported an error), the next one-shot Compress
\* on the same codec, given room for any stream of its input, returns what
\* it returns on a fresh codec: it succeeds with the same output
C24_ReusableAfterFailure ==
  [][(/\ last.op = "Compress" /\ ~last.result.ok /\ last.zret # "none"
      /\ last'.op = "Compress" /\ last'.input \in Inputs /\ last'.outLen = MaxStream)
     => /\ last'.result.ok
        /\ last'.result = CodecCompress(FreshCodec, last'.input, last'.outLen).result]_vars

\* the same when the failed call left nothing in the session: deflate had
\* returned before it took any input or wrote any output
C24_ReusableAfterUntouched ==
  [][(/\ last.op = "Compress" /\ ~last.result.ok /\ last.zret # "none"
      /\ codec.stream_.pending = <<>> /\ codec.stream_.window = <<>>
      /\ codec.stream_.status = "INIT_STATE"
      /\ last'.op = "Compress" /\ last'.input \in Inputs /\ last'.outLen = MaxStream)
     => /\ last'.result.ok
        /\ last'.result = CodecCompress(FreshCodec, last'.input, last'.outLen).result]_vars

\* ----------------------------------------------------------------------
\* C26: compression_level() of a codec constructed with the "use default"
\* sentinel is the algorithm default and otherwise the value given; no
\* operation changes it; and every compression session the codec
\* initializes, its own and the one MakeCompressor makes, has that value as
\* the engine's compression level
C26_CompressionLevel ==
  /\ [](/\ \A l \in Levels, f \in Formats :
             CodecCompressionLevel(GZipCodec(l, f)) =
               IF l = kUseDefaultCompressionLevel THEN kGZipDefaultCompressionLevel
               ELSE l
        /\ codec.stream_.status # "NONE" =>
             codec.stream_.level = CodecCompressionLevel(codec)
        /\ comp.stream_.status # "NONE" =>
             comp.stream_.level = CodecCompressionLevel(codec))
  /\ [][CodecCompressionLevel(codec') = CodecCompressionLevel(codec)]_vars

\* the parts about the value compression_level() reports alone
C26_LevelResolvedAndKept ==
  /\ [](\A l \in Levels, f \in Formats :
          CodecCompressionLevel(GZipCodec(l, f)) =
            IF l = kUseDefaultCompressionLevel THEN kGZipDefaultCompressionLevel
            ELSE l)
  /\ [][CodecCompressionLevel(codec') = CodecCompressionLevel(codec)]_vars

====
